---- MODULE Spec2Model ----
(***************************************************************************)
(* Model of downloader-ctl (src/src/main.rs): the shared App state behind  *)
(* one tokio Mutex, the periodic refresh task, the action tasks spawned    *)
(* by the key handlers, and the interactive loop run_app, all scheduled on *)
(* a current_thread tokio runtime.                                         *)
(***************************************************************************)
EXTENDS Integers, Sequences, FiniteSets, TLC

(* ---------------------------- bounds ----------------------------------- *)
\* longest download list the server returns
MaxLen == 1
\* longest text typed into the input buffer
MaxBuf == 1
\* action tasks (stop/restart/pause/add) alive at the same time
MaxTasks == 1
\* successful refresh commits (readings of Instant::now()) in one run
MaxRefresh == 2

(* ---------------------------- values ----------------------------------- *)
Names == {"a", "b"}

\* KeyCode::Char(c) is modelled by the one-character string c
Chars == {"q", "a", "s", "r", "p", "j", "k"}
SpecialKeys == {"Down", "Up", "Enter", "Backspace", "Esc"}
Keys == Chars \cup SpecialKeys
\* the characters the modelled user types into the input buffer
TypedChars == {"q"}
NoKey == "none"

\* Option<usize>: None is <<>>, Some(i) is <<i>>
None == <<>>
Some(i) == <<i>>
IsSome(o) == o # <<>>
Unwrap(o) == o[1]

Min(x, y) == IF x <= y THEN x ELSE y
Max(x, y) == IF x >= y THEN x ELSE y

\* i32::MAX
I32Max == 2147483647

\* 2^16
Two16 == 65536

\* `i as i32` for a usize i: the low 32 bits of i, taken as two 16-bit halves,
\* read as two's complement
AsI32(i) ==
    LET lo == i % Two16
        hi == (i \div Two16) % Two16
    IN IF 2 * hi >= Two16 THEN (hi - Two16) * Two16 + lo ELSE hi * Two16 + lo

\* i = usize::MAX of a 64-bit target: all four 16-bit parts of i are 0xFFFF
IsUsizeMax(i) ==
    /\ i % Two16 = Two16 - 1
    /\ (i \div Two16) % Two16 = Two16 - 1
    /\ ((i \div Two16) \div Two16) % Two16 = Two16 - 1
    /\ ((i \div Two16) \div Two16) \div Two16 = Two16 - 1

\* `i + 1` in usize overflows at usize::MAX: a build with overflow checks panics
\* there, a build without them wraps to 0
UsizeSucc(i) == IF IsUsizeMax(i) THEN 0 ELSE i + 1

(* ------------------------- wire format --------------------------------- *)
\* a JSON value in the "status" field of a record of the response body
JStr(s) == [t |-> "str", v |-> s]
JNull == [t |-> "null", v |-> ""]
JNum == [t |-> "num", v |-> "42"]

\* DownloadStatus values: unit variants carry the empty message
Status(variant, msg) == [variant |-> variant, msg |-> msg]

\* #[serde(untagged)]: the variants are tried in declaration order; a unit
\* variant matches JSON null, a newtype String variant matches any string.
DownloadStatus_deserialize(j) ==
    CASE j.t = "null" -> [ok |-> TRUE, val |-> Status("Downloading", "")]
      [] j.t = "str" -> [ok |-> TRUE, val |-> Status("RetryingWithMessage", j.v)]
      [] OTHER -> [ok |-> FALSE, val |-> Status("Downloading", "")]

\* status values the modelled server puts on the wire
WireStatuses == {JStr("Offline"), JNum}

WireRecords == [modelName : Names, status : WireStatuses]

RECURSIVE SeqsUpTo(_, _)
SeqsUpTo(S, n) ==
    IF n = 0 THEN {<<>>}
    ELSE LET shorter == SeqsUpTo(S, n - 1)
         IN shorter \cup {Append(s, x) : s \in {t \in shorter : Len(t) = n - 1}, x \in S}

Bodies == SeqsUpTo(WireRecords, MaxLen)

\* Vec<Download> from the body: all records decode, or the whole call fails
Download_decode(body) ==
    IF \A i \in 1..Len(body) : DownloadStatus_deserialize(body[i].status).ok
    THEN [ok |-> TRUE,
          list |-> [i \in 1..Len(body) |->
                      [modelName |-> body[i].modelName,
                       status |-> DownloadStatus_deserialize(body[i].status).val]]]
    ELSE [ok |-> FALSE, list |-> <<>>]

\* outcomes of one HTTP round trip
ListResponses ==
    {[kind |-> "transport", body |-> <<>>], [kind |-> "http_error", body |-> <<>>]}
    \cup {[kind |-> "success", body |-> b] : b \in Bodies}
PostResponses == {"transport", "http_error", "success"}

(* ---------------------------- state ------------------------------------ *)
VARIABLES
    downloads,          \* App.downloads
    selected_download,  \* App.selected_download
    input_mode,         \* App.input_mode
    input_buffer,       \* App.input_buffer
    last_refresh,       \* App.last_refresh, counted in readings of the clock
    lock_holder,        \* unit owning the Mutex<App> guard
    lock_queue,         \* units suspended in lock().await, oldest first
    main_pc,            \* position of run_app
    main_susp,          \* why run_app is suspended: "no", "yield" or "lock"
    key,                \* run_app's local `key`
    mode_local,         \* run_app's local `input_mode`
    refresh_pc,         \* position of the background refresh task
    tasks               \* the action tasks spawned by run_app

app == <<downloads, selected_download, input_mode, input_buffer, last_refresh>>
lock == <<lock_holder, lock_queue>>
mainv == <<main_pc, main_susp, key, mode_local>>
vars == <<downloads, selected_download, input_mode, input_buffer, last_refresh,
          lock_holder, lock_queue, main_pc, main_susp, key, mode_local,
          refresh_pc, tasks>>

\* units of work contending for the lock
RefreshUnit == 0
TaskIds == 1..MaxTasks
MainUnit == MaxTasks + 1
NoUnit == MaxTasks + 2

\* a free slot of `tasks`; name is the model name of a control action, url the
\* drained buffer of an add action
NoTask == [pc |-> "none", kind |-> "none", name |-> "", url |-> <<>>]

ControlKinds == {"stop", "restart", "pause"}

Init ==
    /\ downloads = <<>>
    /\ selected_download = None
    /\ input_mode = "Normal"
    /\ input_buffer = <<>>
    /\ last_refresh = 0
    /\ lock_holder = NoUnit
    /\ lock_queue = <<>>
    /\ main_pc = "draw"
    /\ main_susp = "no"
    /\ key = NoKey
    /\ mode_local = "Normal"
    /\ refresh_pc = "tick"
    /\ tasks = [t \in TaskIds |-> NoTask]

(* --------------------------- the mutex --------------------------------- *)
LockFree == lock_holder = NoUnit

\* lock() by unit u when the mutex is taken: u joins the FIFO wait queue
Enqueue(u) ==
    /\ lock_queue' = Append(lock_queue, u)
    /\ UNCHANGED lock_holder

\* lock() by unit u when the mutex is free
Acquire(u) ==
    /\ lock_holder' = u
    /\ UNCHANGED lock_queue

\* dropping the guard hands the mutex to the oldest waiter
Release ==
    IF lock_queue = <<>>
    THEN lock_holder' = NoUnit /\ lock_queue' = <<>>
    ELSE lock_holder' = Head(lock_queue) /\ lock_queue' = Tail(lock_queue)

\* current_thread runtime: spawned tasks are polled only while run_app, the
\* block_on future, is suspended (it returned Pending)
Sched == main_susp # "no"

(* ------------------------ App operations ------------------------------- *)
\* fetch_downloads as it would be if the records decoded before the failing one
\* were stored
fetch_downloads_partial(resp) ==
    LET dec == Download_decode(resp.body)
        good == {n \in 0..Len(resp.body) :
                   \A i \in 1..n : DownloadStatus_deserialize(resp.body[i].status).ok}
        n == CHOOSE n \in good : \A m \in good : m <= n
    IN IF resp.kind = "success" /\ dec.ok
       THEN [ok |-> TRUE, downloads |-> dec.list, last_refresh |-> last_refresh + 1]
       ELSE IF resp.kind = "success"
       THEN [ok |-> FALSE,
             downloads |-> Download_decode(SubSeq(resp.body, 1, n)).list,
             last_refresh |-> last_refresh]
       ELSE [ok |-> FALSE, downloads |-> downloads, last_refresh |-> last_refresh]

\* App::fetch_downloads on the outcome of its GET: the fields it leaves behind
fetch_downloads(resp) ==
    LET dec == Download_decode(resp.body)
    IN IF resp.kind = "success" /\ dec.ok
       THEN [ok |-> TRUE, downloads |-> dec.list, last_refresh |-> last_refresh + 1]
       ELSE [ok |-> FALSE, downloads |-> downloads, last_refresh |-> last_refresh]

\* outcomes the server may give now (at most MaxRefresh commits in a run)
ListResponsesNow ==
    {r \in ListResponses : fetch_downloads(r).ok => last_refresh < MaxRefresh}

\* fetch_downloads as it would be if the new list were stored without its
\* last_refresh
Fetched_list_only(resp) ==
    /\ downloads' = fetch_downloads(resp).downloads
    /\ UNCHANGED <<last_refresh, selected_download, input_mode, input_buffer>>

\* fetch_downloads as it would be if a successful refresh dropped the selection
Fetched_reset_selection(resp) ==
    /\ downloads' = fetch_downloads(resp).downloads
    /\ last_refresh' = fetch_downloads(resp).last_refresh
    /\ selected_download' = (IF fetch_downloads(resp).ok THEN None ELSE selected_download)
    /\ UNCHANGED <<input_mode, input_buffer>>

\* the fields of the app after fetch_downloads returned on resp
Fetched(resp) ==
    /\ downloads' = fetch_downloads(resp).downloads
    /\ last_refresh' = fetch_downloads(resp).last_refresh
    /\ UNCHANGED <<selected_download, input_mode, input_buffer>>

\* select_next as it would be without the clamp to the last index
select_next_unclamped ==
    IF downloads = <<>> THEN None
    ELSE IF selected_download = None THEN Some(0)
    ELSE Some(Unwrap(selected_download) + 1)

\* App::select_next, where its addition does not panic
select_next ==
    IF downloads = <<>> THEN None
    ELSE IF selected_download = None THEN Some(0)
    ELSE Some(Min(UsizeSucc(Unwrap(selected_download)), Len(downloads) - 1))

\* the addition of App::select_next overflows on the current selection
select_next_overflows ==
    /\ downloads # <<>>
    /\ IsSome(selected_download)
    /\ IsUsizeMax(Unwrap(selected_download))

\* i32::MIN
I32Min == (-I32Max) - 1

\* `x - 1` in i32 overflows at i32::MIN: a build with overflow checks panics
\* there, a build without them wraps to i32::MAX
I32Pred(x) == IF x = I32Min THEN I32Max ELSE x - 1

\* the subtraction of App::select_previous overflows on the current selection
select_previous_overflows ==
    /\ downloads # <<>>
    /\ IsSome(selected_download)
    /\ AsI32(Unwrap(selected_download)) = I32Min

\* App::select_previous, where its subtraction does not panic
select_previous ==
    IF downloads = <<>> THEN None
    ELSE IF selected_download = None THEN Some(0)
    ELSE Some(Max(I32Pred(AsI32(Unwrap(selected_download))), 0))

\* App::selected_model_name: downloads[i] panics when i is out of bounds
selected_model_name ==
    IF selected_download = None THEN [panic |-> FALSE, name |-> None]
    ELSE IF Unwrap(selected_download) >= Len(downloads)
         THEN [panic |-> TRUE, name |-> None]
         ELSE [panic |-> FALSE,
               name |-> Some(downloads[Unwrap(selected_download) + 1].modelName)]

\* ui: the style closure indexes downloads[selected] once per listed download
ui_panics ==
    /\ downloads # <<>>
    /\ IsSome(selected_download)
    /\ Unwrap(selected_download) >= Len(downloads)

(* ------------------- background refresh task --------------------------- *)
\* interval.tick() elapsed: lock the app and send the GET under the guard
RefreshTick ==
    /\ Sched
    /\ refresh_pc = "tick"
    /\ IF LockFree
       THEN Acquire(RefreshUnit) /\ refresh_pc' = "fetch"
       ELSE Enqueue(RefreshUnit) /\ refresh_pc' = "lockwait"
    /\ UNCHANGED <<app, mainv, tasks>>

\* the guard is handed to the waiting refresh task, which sends the GET
RefreshGranted ==
    /\ Sched
    /\ refresh_pc = "lockwait"
    /\ lock_holder = RefreshUnit
    /\ refresh_pc' = "fetch"
    /\ UNCHANGED <<app, lock, mainv, tasks>>

\* the GET returns resp: fetch_downloads finishes, the guard is dropped, next tick
RefreshResponseOn(resp) ==
    /\ Sched
    /\ refresh_pc = "fetch"
    /\ Fetched(resp)
    /\ Release
    /\ refresh_pc' = "tick"
    /\ UNCHANGED <<mainv, tasks>>

RefreshResponse == \E resp \in ListResponsesNow : RefreshResponseOn(resp)

(* ------------------------- action tasks -------------------------------- *)
SetPc(t, pc) == tasks' = [tasks EXCEPT ![t].pc = pc]

\* first poll of a spawned task: lock the app and send its POST under the guard
TaskStart(t) ==
    /\ Sched
    /\ tasks[t].pc = "start"
    /\ IF LockFree
       THEN Acquire(t) /\ SetPc(t, "remote")
       ELSE Enqueue(t) /\ SetPc(t, "lockwait1")
    /\ UNCHANGED <<app, mainv, refresh_pc>>

TaskGranted1(t) ==
    /\ Sched
    /\ tasks[t].pc = "lockwait1"
    /\ lock_holder = t
    /\ SetPc(t, "remote")
    /\ UNCHANGED <<app, lock, mainv, refresh_pc>>

\* stop/restart/pause: the control POST returns (its error is only printed), the
\* guard is dropped and the task locks again for the trailing fetch_downloads
ControlResponse(t) ==
    /\ Sched
    /\ tasks[t].pc = "remote"
    /\ tasks[t].kind \in ControlKinds
    /\ \E r \in PostResponses :
         IF lock_queue = <<>>
         THEN UNCHANGED lock /\ SetPc(t, "fetch")
         ELSE /\ lock_holder' = Head(lock_queue)
              /\ lock_queue' = Append(Tail(lock_queue), t)
              /\ SetPc(t, "lockwait2")
    /\ UNCHANGED <<app, mainv, refresh_pc>>

TaskGranted2(t) ==
    /\ Sched
    /\ tasks[t].pc = "lockwait2"
    /\ lock_holder = t
    /\ SetPc(t, "fetch")
    /\ UNCHANGED <<app, lock, mainv, refresh_pc>>

\* add: the create POST of App::add_download returns; on success add_download
\* goes on to its own fetch_downloads, otherwise the task's trailing one starts;
\* the guard is kept
AddResponse(t) ==
    /\ Sched
    /\ tasks[t].pc = "remote"
    /\ tasks[t].kind = "add"
    /\ \E r \in PostResponses :
         SetPc(t, IF r = "success" THEN "fetch1" ELSE "fetch")
    /\ UNCHANGED <<app, lock, mainv, refresh_pc>>

\* add: the fetch_downloads inside add_download returns resp; the trailing one
\* starts
AddFetchResponseOn(t, resp) ==
    /\ Sched
    /\ tasks[t].pc = "fetch1"
    /\ Fetched(resp)
    /\ SetPc(t, "fetch")
    /\ UNCHANGED <<lock, mainv, refresh_pc>>

AddFetchResponse(t) == \E resp \in ListResponsesNow : AddFetchResponseOn(t, resp)

\* the trailing fetch_downloads returns resp: the guard is dropped, the task ends
TaskFetchResponseOn(t, resp) ==
    /\ Sched
    /\ tasks[t].pc = "fetch"
    /\ Fetched(resp)
    /\ Release
    /\ tasks' = [tasks EXCEPT ![t] = NoTask]
    /\ UNCHANGED <<mainv, refresh_pc>>

TaskFetchResponse(t) == \E resp \in ListResponsesNow : TaskFetchResponseOn(t, resp)

\* the unit has an HTTP request in flight
InFlight(u) ==
    IF u = RefreshUnit THEN refresh_pc = "fetch"
    ELSE u \in TaskIds /\ tasks[u].pc \in {"remote", "fetch1", "fetch"}

\* the requests, as method, path below downloader_url, and JSON body {"url": ..}
fetch_downloads_request == [method |-> "GET", path |-> <<"downloads">>, url |-> <<>>]
add_download_request(url) == [method |-> "POST", path |-> <<"downloads">>, url |-> url]
control_download_request(model_name, action) ==
    [method |-> "POST", path |-> <<model_name, action>>, url |-> <<>>]

\* the request an action task has in flight
Request(t) ==
    IF tasks[t].pc \in {"fetch1", "fetch"} THEN fetch_downloads_request
    ELSE IF tasks[t].kind = "add" THEN add_download_request(tasks[t].url)
    ELSE control_download_request(tasks[t].name, tasks[t].kind)

(* ----------------------- interactive loop ------------------------------ *)
FreeSlots == {t \in TaskIds : tasks[t].pc = "none"}
FreeSlot == CHOOSE t \in FreeSlots : \A u \in FreeSlots : t <= u

\* tokio::spawn of an action task
Spawn(kind, name, url) ==
    tasks' = [tasks EXCEPT ![FreeSlot] =
                [pc |-> "start", kind |-> kind, name |-> name, url |-> url]]

ControlKeys == {"s", "r", "p"}
KindOf(k) == CASE k = "s" -> "stop" [] k = "r" -> "restart" [] k = "p" -> "pause"

\* keys that spawn a task in the given mode
Spawning(mode, k) ==
    \/ mode = "Normal" /\ k \in ControlKeys
    \/ mode = "AddingDownload" /\ k = "Enter"

\* keys whose handler locks the app
Locking(mode, k) ==
    \/ mode = "Normal" /\ k \in {"a", "s", "r", "p", "j", "k", "Down", "Up"}
    \/ mode = "AddingDownload" /\ k \in Chars \cup {"Enter", "Backspace", "Esc"}

\* terminal.draw(ui): render the state under the guard
Draw ==
    /\ main_pc' = (IF ui_panics THEN "panicked" ELSE "read")
    /\ UNCHANGED <<app, key, mode_local, tasks>>

\* event::read() returns; it blocks the only thread of the runtime until then.
\* The keys offered are bounded: a key that spawns a task needs a free task slot,
\* and a character is typed only from TypedChars while the buffer is below MaxBuf.
MainRead ==
    /\ main_pc = "read"
    /\ main_susp = "no"
    /\ \/ \E k \in Keys :
            /\ Spawning(input_mode, k) => FreeSlots # {}
            /\ (input_mode = "AddingDownload" /\ k \in Chars)
                 => k \in TypedChars /\ Len(input_buffer) < MaxBuf
            /\ key' = k
            /\ main_pc' = "mode"
       \/ \* an event that is no key event: next iteration
          /\ main_pc' = "draw"
          /\ UNCHANGED key
    /\ UNCHANGED <<app, lock, main_susp, mode_local, refresh_pc, tasks>>

\* the dispatch as it would be if q were tested before the input mode
ReadMode_quit_in_any_mode ==
    /\ mode_local' = input_mode
    /\ IF key = "q"
       THEN main_pc' = "quit" /\ key' = NoKey
       ELSE IF Locking(input_mode, key)
       THEN main_pc' = "act" /\ UNCHANGED key
       ELSE main_pc' = "draw" /\ key' = NoKey
    /\ UNCHANGED <<app, tasks>>

\* read app.input_mode under the guard, then the handlers that need no lock
ReadMode ==
    /\ mode_local' = input_mode
    /\ IF Locking(input_mode, key)
       THEN main_pc' = "act" /\ UNCHANGED key
       ELSE /\ main_pc' = (IF input_mode = "Normal" /\ key = "q" THEN "quit" ELSE "draw")
            /\ key' = NoKey
    /\ UNCHANGED <<app, tasks>>

\* Normal, 'a'
KeyAdd ==
    /\ input_mode' = "AddingDownload"
    /\ main_pc' = "draw"
    /\ UNCHANGED <<downloads, selected_download, input_buffer, last_refresh, tasks>>

\* Normal, 's' / 'r' / 'p': read the selected name under the guard, then spawn
KeyControl(kind) ==
    /\ IF selected_model_name.panic
       THEN main_pc' = "panicked" /\ UNCHANGED tasks
       ELSE /\ main_pc' = "draw"
            /\ IF IsSome(selected_model_name.name)
               THEN Spawn(kind, Unwrap(selected_model_name.name), <<>>)
               ELSE UNCHANGED tasks
    /\ UNCHANGED app

\* Normal, Down / 'j'
KeyDown ==
    /\ \/ /\ selected_download' = select_next
          /\ main_pc' = "draw"
       \/ \* overflow checks on: `i + 1` panics at usize::MAX
          /\ select_next_overflows
          /\ UNCHANGED selected_download
          /\ main_pc' = "panicked"
    /\ UNCHANGED <<downloads, input_mode, input_buffer, last_refresh, tasks>>

\* Normal, Up / 'k'
KeyUp ==
    /\ \/ /\ selected_download' = select_previous
          /\ main_pc' = "draw"
       \/ \* overflow checks on: `i as i32 - 1` panics at i32::MIN
          /\ select_previous_overflows
          /\ UNCHANGED selected_download
          /\ main_pc' = "panicked"
    /\ UNCHANGED <<downloads, input_mode, input_buffer, last_refresh, tasks>>

\* the Enter handler as it would be if the url were read after the drain
KeyEnter_url_after_drain ==
    /\ input_buffer' = <<>>
    /\ input_mode' = "Normal"
    /\ Spawn("add", "", <<>>)
    /\ main_pc' = "draw"
    /\ UNCHANGED <<downloads, selected_download, last_refresh>>

\* AddingDownload, Enter: drain the buffer, back to Normal, spawn the add task
KeyEnter ==
    /\ input_buffer' = <<>>
    /\ input_mode' = "Normal"
    /\ Spawn("add", "", input_buffer)
    /\ main_pc' = "draw"
    /\ UNCHANGED <<downloads, selected_download, last_refresh>>

\* AddingDownload, Char(c)
KeyChar(c) ==
    /\ input_buffer' = Append(input_buffer, c)
    /\ main_pc' = "draw"
    /\ UNCHANGED <<downloads, selected_download, input_mode, last_refresh, tasks>>

\* AddingDownload, Backspace
KeyBackspace ==
    /\ input_buffer' = (IF input_buffer = <<>> THEN <<>>
                        ELSE SubSeq(input_buffer, 1, Len(input_buffer) - 1))
    /\ main_pc' = "draw"
    /\ UNCHANGED <<downloads, selected_download, input_mode, last_refresh, tasks>>

\* the Esc handler as it would be without input_buffer.clear()
KeyEsc_keep_buffer ==
    /\ input_mode' = "Normal"
    /\ main_pc' = "draw"
    /\ UNCHANGED <<downloads, selected_download, input_buffer, last_refresh, tasks>>

\* AddingDownload, Esc
KeyEsc ==
    /\ input_mode' = "Normal"
    /\ input_buffer' = <<>>
    /\ main_pc' = "draw"
    /\ UNCHANGED <<downloads, selected_download, last_refresh, tasks>>

\* the handler of `key` in the mode read before
Act ==
    /\ key' = NoKey
    /\ UNCHANGED mode_local
    /\ IF mode_local = "Normal"
       THEN CASE key = "a" -> KeyAdd
              [] key \in ControlKeys -> KeyControl(KindOf(key))
              [] key \in {"j", "Down"} -> KeyDown
              [] key \in {"k", "Up"} -> KeyUp
       ELSE CASE key = "Enter" -> KeyEnter
              [] key \in Chars -> KeyChar(key)
              [] key = "Backspace" -> KeyBackspace
              [] key = "Esc" -> KeyEsc

\* what run_app does under the guard at its current lock().await
MainOp ==
    CASE main_pc = "draw" -> Draw
      [] main_pc = "mode" -> ReadMode
      [] main_pc = "act" -> Act

AtLock == main_pc \in {"draw", "mode", "act"}

\* lock().await finds the mutex free: the guarded block runs without suspending
MainStep ==
    /\ main_susp = "no"
    /\ AtLock
    /\ LockFree
    /\ MainOp
    /\ UNCHANGED <<lock, main_susp, refresh_pc>>

\* lock().await finds the mutex taken: run_app is suspended in the wait queue
MainBlock ==
    /\ main_susp = "no"
    /\ AtLock
    /\ ~LockFree
    /\ Enqueue(MainUnit)
    /\ main_susp' = "lock"
    /\ UNCHANGED <<app, main_pc, key, mode_local, refresh_pc, tasks>>

\* lock().await returns Pending because the cooperative budget of this poll is
\* used up: run_app is rescheduled behind the spawned tasks
MainYield ==
    /\ main_susp = "no"
    /\ AtLock
    /\ main_susp' = "yield"
    /\ UNCHANGED <<app, lock, main_pc, key, mode_local, refresh_pc, tasks>>

MainResume ==
    /\ main_susp = "yield"
    /\ main_susp' = "no"
    /\ UNCHANGED <<app, lock, main_pc, key, mode_local, refresh_pc, tasks>>

\* the guard was handed to run_app: the guarded block runs, the guard is dropped
MainGranted ==
    /\ main_susp = "lock"
    /\ lock_holder = MainUnit
    /\ MainOp
    /\ Release
    /\ main_susp' = "no"
    /\ UNCHANGED refresh_pc

Next ==
    \/ MainRead
    \/ MainStep
    \/ MainBlock
    \/ MainYield
    \/ MainResume
    \/ MainGranted
    \/ RefreshTick
    \/ RefreshGranted
    \/ RefreshResponse
    \/ \E t \in TaskIds :
         \/ TaskStart(t)
         \/ TaskGranted1(t)
         \/ ControlResponse(t)
         \/ TaskGranted2(t)
         \/ AddResponse(t)
         \/ AddFetchResponse(t)
         \/ TaskFetchResponse(t)

Spec == Init /\ [][Next]_vars

TypeOK ==
    /\ downloads \in SeqsUpTo([modelName : Names,
                               status : {Status("RetryingWithMessage", "Offline")}], MaxLen)
    /\ selected_download \in {None} \cup {Some(i) : i \in 0..(MaxLen - 1)}
    /\ input_mode \in {"Normal", "AddingDownload"}
    /\ Len(input_buffer) <= MaxBuf
    /\ last_refresh \in 0..MaxRefresh
    /\ lock_holder \in {RefreshUnit, MainUnit, NoUnit} \cup TaskIds
    /\ main_pc \in {"draw", "read", "mode", "act", "quit", "panicked"}
    /\ main_susp \in {"no", "yield", "lock"}
    /\ refresh_pc \in {"tick", "lockwait", "fetch"}

(* ======================= properties ==================================== *)
Workers == {RefreshUnit} \cup TaskIds

SelectionInBounds ==
    /\ IsSome(selected_download) => Unwrap(selected_download) < Len(downloads)
    /\ downloads = <<>> => selected_download = None

\* C1: in every reachable state the selection is None or Some(i) with
\* i < Len(downloads), it is None when the list is empty, and run_app has not
\* panicked on an out-of-bounds index.
C1_SelectionInvariant ==
    /\ SelectionInBounds
    /\ main_pc # "panicked"

\* a successful refresh commits in this step
Commit == last_refresh' # last_refresh

\* C2: a commit made while the selection is Some(i) leaves Some(min(i, len-1))
\* for a non-empty new list and None for an empty one.
C2_ClampOnRefresh ==
    [][(Commit /\ IsSome(selected_download)) =>
         selected_download' =
            (IF downloads' = <<>> THEN None
             ELSE Some(Min(Unwrap(selected_download), Len(downloads') - 1)))]_vars

\* C3: no unit holds the lock on the app while one of its HTTP requests is in
\* flight.
C3_NoLockAcrossNetwork ==
    \A u \in Workers : InFlight(u) => lock_holder # u

\* C4: run_app is never suspended in lock().await behind a unit whose HTTP
\* request is in flight.
C4_LoopNeverWaitsOnNetwork ==
    main_susp = "lock" => \A u \in Workers : ~(lock_holder = u /\ InFlight(u))

\* a list_downloads outcome that the claim calls a failure
FailedList(resp) ==
    \/ resp.kind = "transport"
    \/ resp.kind = "http_error"
    \/ \E i \in 1..Len(resp.body) : resp.body[i].status.t \notin {"str", "null"}

\* some fetch_downloads call returns resp in this step
FetchReturns(resp) ==
    \/ RefreshResponseOn(resp)
    \/ \E t \in TaskIds : AddFetchResponseOn(t, resp) \/ TaskFetchResponseOn(t, resp)

\* C5: a fetch_downloads call that fails (transport error, non-success status,
\* or a body with an undecodable record) leaves downloads, selected_download,
\* input_mode, input_buffer and last_refresh as they were.
C5_FailedRefreshUnchanged ==
    [][\A resp \in ListResponses :
         (FailedList(resp) /\ FetchReturns(resp)) => UNCHANGED app]_vars

\* run_app was handed the guard by a unit whose fetch_downloads returned, and no
\* refresh has committed so far: that fetch failed
C5_Witness ==
    /\ last_refresh = 0
    /\ main_susp = "lock"
    /\ lock_holder = MainUnit
    /\ refresh_pc = "tick"

\* C6: whenever the input mode is Normal the input buffer is empty.
C6_NormalModeBufferEmpty ==
    input_mode = "Normal" => input_buffer = <<>>

\* back in Normal mode after Enter confirmed a typed text
C6_Witness ==
    /\ input_mode = "Normal"
    /\ input_buffer = <<>>
    /\ \E t \in TaskIds : tasks[t].pc = "start" /\ tasks[t].kind = "add"
                          /\ tasks[t].url # <<>>

\* run_app leaves the handler of `key`
HandlerStep(mode, keys) ==
    /\ main_pc = "act"
    /\ mode_local = mode
    /\ key \in keys
    /\ main_pc' # "act"

\* C7: Enter in AddingDownload mode on an empty buffer returns to Normal and
\* spawns no task (no create request, no refresh).
C7_EmptyConfirmNoDispatch ==
    [][(HandlerStep("AddingDownload", {"Enter"}) /\ input_buffer = <<>>) =>
         (input_mode' = "Normal" /\ UNCHANGED tasks)]_vars

\* exactly one task is spawned in this step, and it is `task`
SpawnsOnly(task) ==
    \E t \in TaskIds :
        /\ tasks[t].pc = "none"
        /\ tasks'[t] = task
        /\ \A u \in TaskIds \ {t} : tasks'[u] = tasks[u]

\* C8: Enter in AddingDownload mode on a non-empty buffer B empties the buffer,
\* sets the mode to Normal and spawns exactly one add task carrying B; the task
\* sends one create request, with url B, and the return of that request changes
\* neither the buffer nor the mode.
C8_ConfirmWithText ==
    [][/\ (HandlerStep("AddingDownload", {"Enter"}) /\ input_buffer # <<>>) =>
            /\ input_buffer' = <<>>
            /\ input_mode' = "Normal"
            /\ SpawnsOnly([pc |-> "start", kind |-> "add", name |-> "",
                           url |-> input_buffer])
       /\ \A t \in TaskIds :
            /\ (tasks[t].kind = "add" /\ tasks'[t].pc = "remote") =>
                 /\ tasks[t].pc \in {"start", "lockwait1", "remote"}
                 /\ tasks'[t].url = tasks[t].url
                 /\ Request(t)' = add_download_request(tasks[t].url)
            /\ (tasks[t].kind = "add" /\ tasks[t].pc = "remote"
                  /\ tasks'[t].pc # "remote") =>
                 /\ UNCHANGED <<input_mode, input_buffer>>
                 /\ tasks'[t].pc \in {"fetch1", "fetch"}]_vars

\* the create request of a confirmed text has returned; mode and buffer are reset
C8_Witness ==
    /\ input_mode = "Normal"
    /\ input_buffer = <<>>
    /\ \E t \in TaskIds : tasks[t].kind = "add" /\ tasks[t].url # <<>>
                          /\ tasks[t].pc \in {"fetch1", "fetch"}

\* C9: in Normal mode s, r or p spawns a control task if and only if a
\* selection exists, for the name selected then; without a selection nothing is
\* spawned.
C9_ControlNeedsSelection ==
    [][HandlerStep("Normal", ControlKeys) =>
         IF IsSome(selected_download)
         THEN /\ Unwrap(selected_download) < Len(downloads)
              /\ SpawnsOnly([pc |-> "start", kind |-> KindOf(key),
                             name |-> downloads[Unwrap(selected_download) + 1].modelName,
                             url |-> <<>>])
         ELSE UNCHANGED tasks]_vars

(* ------------- selection moves on lists of every length ---------------- *)
\* longest list on which the selection moves are tried
MaxSelLen == 3

Downloads(n) ==
    SeqsUpTo([modelName : Names, status : {Status("RetryingWithMessage", "Offline")}], n)

\* run_app about to run the handler of a navigation key, on any list and any
\* selection a refresh may have left behind
InitSelect ==
    /\ downloads \in Downloads(MaxSelLen)
    /\ selected_download \in {None} \cup {Some(i) : i \in 0..(MaxSelLen - 1)}
    /\ input_mode = "Normal"
    /\ input_buffer = <<>>
    /\ last_refresh = (IF downloads = <<>> THEN 0 ELSE 1)
    /\ lock_holder = NoUnit
    /\ lock_queue = <<>>
    /\ main_pc = "act"
    /\ main_susp = "no"
    /\ key \in {"j", "k", "Down", "Up"}
    /\ mode_local = "Normal"
    /\ refresh_pc = "tick"
    /\ tasks = [t \in TaskIds |-> NoTask]

\* run_app alone, never suspended
NextSelect ==
    \/ MainRead
    \/ MainStep

SpecSelect == InitSelect /\ [][NextSelect]_vars

ValidSelection ==
    /\ IsSome(selected_download)
    /\ Unwrap(selected_download) < Len(downloads)

\* C10: on a non-empty list with a selection Some(i), i < len, Down/j leaves
\* Some(min(i+1, len-1)) and Up/k leaves Some(max(i-1, 0)); the list, the mode
\* and the buffer stay as they are.
C10_SelectionMoves ==
    [][/\ (HandlerStep("Normal", {"j", "Down"}) /\ ValidSelection) =>
            /\ selected_download' =
                 Some(Min(Unwrap(selected_download) + 1, Len(downloads) - 1))
            /\ UNCHANGED <<downloads, input_mode, input_buffer>>
       /\ (HandlerStep("Normal", {"k", "Up"}) /\ ValidSelection) =>
            /\ selected_download' = Some(Max(Unwrap(selected_download) - 1, 0))
            /\ UNCHANGED <<downloads, input_mode, input_buffer>>]_vars

\* a navigation handler has run and the last of several downloads is selected
C10_Witness ==
    /\ main_pc = "draw"
    /\ Len(downloads) = MaxSelLen
    /\ selected_download = Some(MaxSelLen - 1)
    /\ input_mode = "Normal"
    /\ tasks = [t \in TaskIds |-> NoTask]

\* C11: for every prior selection (None, a valid index, or a stale index >= len)
\* Down/j and Up/k leave None when the list is empty and otherwise a selection
\* inside [0, len-1], and neither handler panics.
C11_MovesClamped ==
    [][HandlerStep("Normal", {"j", "Down", "k", "Up"}) =>
         /\ main_pc' # "panicked"
         /\ IF downloads = <<>>
            THEN selected_download' = None
            ELSE /\ IsSome(selected_download')
                 /\ Unwrap(selected_download') \in 0..(Len(downloads) - 1)]_vars

\* the same model names in the same order
SameNames(l1, l2) ==
    /\ Len(l1) = Len(l2)
    /\ \A i \in 1..Len(l1) : l1[i].modelName = l2[i].modelName

\* C12: a successful refresh that delivers a list with the same names in the
\* same order while the selection is Some(i) leaves the name of the selected
\* download (what selected_model_name returns) as it was.
C12_RefreshKeepsSelectedName ==
    [][(Commit /\ IsSome(selected_download) /\ SameNames(downloads, downloads')) =>
         selected_model_name' = selected_model_name]_vars

\* the second refresh has committed a list while its only download is selected
C12_Witness ==
    /\ last_refresh = MaxRefresh
    /\ downloads # <<>>
    /\ selected_download = Some(0)
    /\ selected_model_name.name # None

(* --------------- what the runtime schedules by itself ------------------ *)
\* the steps of the refresh task
RefreshTask == RefreshTick \/ RefreshGranted \/ RefreshResponse

\* the steps of action task t
ActionTask(t) ==
    \/ TaskStart(t)
    \/ TaskGranted1(t)
    \/ ControlResponse(t)
    \/ TaskGranted2(t)
    \/ AddResponse(t)
    \/ AddFetchResponse(t)
    \/ TaskFetchResponse(t)

\* the steps run_app takes without waiting for the terminal
MainRuns == MainStep \/ MainBlock \/ MainResume \/ MainGranted

\* run_app, polled with a fresh budget, gets through its lock().await: it takes
\* the free mutex or joins the wait queue
MainLocks == MainStep \/ MainBlock

\* one poll of run_app passes a bounded number of lock().await (tokio's
\* cooperative budget, fresh at every poll) before it returns Pending: a run_app
\* that passes lock().await again and again is suspended again and again, by a
\* taken mutex or by the used-up budget
BudgetYield == []<><<MainStep>>_vars => []<>(main_susp # "no")

\* the current_thread runtime polls every ready task each time run_app returns
\* Pending, polls run_app again afterwards, and every HTTP request returns;
\* event::read returns only when the terminal has an event, which nothing
\* ensures
Fairness ==
    /\ WF_vars(MainRuns)
    /\ SF_vars(MainLocks)
    /\ BudgetYield
    /\ SF_vars(RefreshTask)
    /\ \A t \in TaskIds : SF_vars(ActionTask(t))

SpecFair == Init /\ [][Next]_vars /\ Fairness

\* the process has ended: run_app returned on q or panicked
Exited == main_pc \in {"quit", "panicked"}

\* C13: every dispatched action task (stop, restart, pause, add) eventually has
\* its trailing list_downloads request in flight, whatever its own POST
\* returned; stated for the runs in which the process does not end first.
C13_TrailingRefresh ==
    \A t \in TaskIds :
        (tasks[t].pc = "start") ~> (tasks[t].pc = "fetch" \/ Exited)

\* task t passes from its remote call (the POST, and for add the fetch inside
\* add_download) to its trailing refresh in this step
ToTrailingRefresh(t) ==
    /\ tasks[t].pc \in {"remote", "fetch1"}
    /\ tasks'[t].pc \in {"lockwait2", "fetch"}

\* C14: every action task (stop, restart, pause and add) gives up the lock
\* between its remote call and its trailing refresh: a unit waiting for the lock
\* at that point is handed it before the trailing refresh is sent.
C14_IndependentLockWindows ==
    [][\A t \in TaskIds :
         (ToTrailingRefresh(t) /\ lock_queue # <<>>) =>
            lock_holder' = Head(lock_queue)]_vars

\* C15: the refresh task never stops: whenever it waits for its next tick
\* (at start, and after an attempt that failed or succeeded) it sends another
\* list_downloads request, also while run_app is idle waiting for input; stated
\* for the runs in which the process does not end first.
C15_RefreshNeverStops ==
    (refresh_pc = "tick") ~> (refresh_pc = "fetch" \/ Exited)

\* the GET of a fetch_downloads call of action task t is in flight
ListRequestInFlight(t) == tasks[t].pc \in {"fetch1", "fetch"}

\* the refresh task sends its list request in this step
RefreshSends == RefreshTick /\ refresh_pc' = "fetch"

\* C16: refreshes race with no sequencing: while the list request of an action
\* task is in flight, the refresh task, once its tick has elapsed, can send its
\* own list request, so that the request issued earlier may commit after (and
\* overwrite) the one issued later.
C16_RacingRefreshes ==
    \A t \in TaskIds :
        (ListRequestInFlight(t) /\ refresh_pc = "tick" /\ Sched) => ENABLED RefreshSends

(* -------------- status texts through the list decoder ------------------ *)
\* variants of DownloadStatus without and with a message
UnitVariants ==
    {"Downloading", "Initializing", "Retrying", "Offline", "Paused",
     "PausedForExclusiveShow", "PausedForTicketShow", "Error", "Completed"}
MessageVariants == {"RetryingWithMessage", "ErrorWithMessage"}

\* messages a status may carry
Msgs == {"timeout", "disk full"}

Statuses ==
    {Status(v, "") : v \in UnitVariants} \cup {Status(v, m) : v \in MessageVariants, m \in Msgs}

\* impl Display for DownloadStatus
Display(s) ==
    CASE s.variant = "Downloading" -> "Downloading"
      [] s.variant = "Initializing" -> "Initializing"
      [] s.variant = "Retrying" -> "Retrying"
      [] s.variant = "RetryingWithMessage" -> "Retrying: " \o s.msg
      [] s.variant = "Offline" -> "Offline"
      [] s.variant = "Paused" -> "Paused"
      [] s.variant = "PausedForExclusiveShow" -> "Paused for Exclusive Show"
      [] s.variant = "PausedForTicketShow" -> "Paused for Ticket Show"
      [] s.variant = "Error" -> "Error"
      [] s.variant = "ErrorWithMessage" -> "Error: " \o s.msg
      [] s.variant = "Completed" -> "Completed"

\* a status text whose keyword names no variant
UnknownTexts == {"Bogus", "Bogus: timeout"}

\* status values on the wire: every displayed text, unknown texts, null, a number
StatusWire ==
    {JStr(Display(s)) : s \in Statuses} \cup {JStr(x) : x \in UnknownTexts} \cup {JNull, JNum}

\* successful list responses of at most one record with such a status
StatusResponses ==
    {[kind |-> "success", body |-> b] :
        b \in SeqsUpTo([modelName : Names, status : StatusWire], 1)}

\* the first list request of the refresh task is in flight
InitStatus ==
    /\ downloads = <<>>
    /\ selected_download = None
    /\ input_mode = "Normal"
    /\ input_buffer = <<>>
    /\ last_refresh = 0
    /\ lock_holder = RefreshUnit
    /\ lock_queue = <<>>
    /\ main_pc = "draw"
    /\ main_susp = "yield"
    /\ key = NoKey
    /\ mode_local = "Normal"
    /\ refresh_pc = "fetch"
    /\ tasks = [t \in TaskIds |-> NoTask]

\* the list request returns one of the status responses
StatusResponse ==
    \E resp \in StatusResponses :
        /\ fetch_downloads(resp).ok => last_refresh < MaxRefresh
        /\ RefreshResponseOn(resp)

\* the refresh task alone, run_app staying suspended
NextStatus ==
    \/ StatusResponse
    \/ RefreshTick

SpecStatus == InitStatus /\ [][NextStatus]_vars

\* the refresh task's list request returns a one-record body whose status is
\* the JSON value j
Decodes(j) ==
    \E resp \in StatusResponses :
        /\ Len(resp.body) = 1
        /\ resp.body[1].status = j
        /\ RefreshResponseOn(resp)

\* the decoded list holds one record, with status s
DecodedAs(s) == Len(downloads') = 1 /\ downloads'[1].status = s

\* C17: for every status (every unit variant, Retrying and Error with a message
\* and without), the list decoder turns the displayed text of the status back
\* into that status.
C17_StatusRoundTrip ==
    [][\A s \in Statuses : Decodes(JStr(Display(s))) => DecodedAs(s)]_vars

\* C18: the decoder reads 'Error: <rest>' as Error carrying <rest>,
\* 'Retrying: <rest>' as Retrying carrying <rest>, a bare keyword as its variant
\* without a message, and fails (the refresh changes nothing) on a text whose
\* keyword names no variant.
C18_StatusGrammar ==
    [][/\ \A rest \in Msgs :
            /\ Decodes(JStr("Error: " \o rest)) => DecodedAs(Status("ErrorWithMessage", rest))
            /\ Decodes(JStr("Retrying: " \o rest)) =>
                 DecodedAs(Status("RetryingWithMessage", rest))
       /\ \A v \in UnitVariants :
            Decodes(JStr(Display(Status(v, "")))) => DecodedAs(Status(v, ""))
       /\ \A x \in UnknownTexts : Decodes(JStr(x)) => UNCHANGED app]_vars

\* C19: the POST of a stop, restart or pause task for download N goes to
\* {base}/downloads/N/{action}.
C19_ControlTarget ==
    \A t \in TaskIds :
        (tasks[t].kind \in ControlKinds /\ tasks[t].pc = "remote") =>
            /\ Request(t).method = "POST"
            /\ Request(t).path = <<"downloads", tasks[t].name, tasks[t].kind>>

(* ---------------- every key in both input modes ------------------------ *)
\* longest text typed when every character key is offered
MaxKeysBuf == 2

\* run_app waiting in event::read, in Normal mode, on a list a refresh left
\* behind and with any valid selection
InitKeys ==
    /\ downloads \in Downloads(MaxLen)
    /\ selected_download \in {None} \cup {Some(i) : i \in 0..(Len(downloads) - 1)}
    /\ input_mode = "Normal"
    /\ input_buffer = <<>>
    /\ last_refresh = (IF downloads = <<>> THEN 0 ELSE 1)
    /\ lock_holder = NoUnit
    /\ lock_queue = <<>>
    /\ main_pc = "read"
    /\ main_susp = "no"
    /\ key = NoKey
    /\ mode_local = "Normal"
    /\ refresh_pc = "tick"
    /\ tasks = [t \in TaskIds |-> NoTask]

\* event::read() returns any key event: every character can be typed while the
\* buffer is below MaxKeysBuf; a key that spawns a task needs a free task slot
MainReadKeys ==
    /\ main_pc = "read"
    /\ main_susp = "no"
    /\ \E k \in Keys :
         /\ Spawning(input_mode, k) => FreeSlots # {}
         /\ (input_mode = "AddingDownload" /\ k \in Chars) => Len(input_buffer) < MaxKeysBuf
         /\ key' = k
         /\ main_pc' = "mode"
    /\ UNCHANGED <<app, lock, main_susp, mode_local, refresh_pc, tasks>>

\* run_app alone, never suspended
NextKeys ==
    \/ MainReadKeys
    \/ MainStep

SpecKeys == InitKeys /\ [][NextKeys]_vars

\* run_app takes a step of the handling of `key` under input mode `mode`: the
\* mode read (which also handles the keys that need no lock) or the handler
KeyEventStep(mode) ==
    /\ main_pc \in {"mode", "act"}
    /\ main_pc' # main_pc
    /\ mode = (IF main_pc = "mode" THEN input_mode ELSE mode_local)

\* C20: in AddingDownload mode no key event quits, moves the selection or
\* spawns a stop/restart/pause task, and the characters (q, a, s, r, p, j, k
\* among them) are appended to the buffer; the loop exits only on q in Normal
\* mode; in Normal mode no key event changes the buffer.
C20_ModeGatedKeys ==
    [][/\ KeyEventStep("AddingDownload") =>
            /\ main_pc' \in {"act", "draw"}
            /\ UNCHANGED selected_download
            /\ \A t \in TaskIds : tasks'[t] = tasks[t] \/ tasks'[t].kind = "add"
            /\ (main_pc = "act" /\ key \in Chars) =>
                 input_buffer' = Append(input_buffer, key)
       /\ (main_pc # "quit" /\ main_pc' = "quit") =>
            (KeyEventStep("Normal") /\ key = "q")
       /\ KeyEventStep("Normal") => UNCHANGED input_buffer]_vars

\* with a download selected, q and s were typed into the buffer as text
C20_Witness ==
    /\ input_mode = "AddingDownload"
    /\ input_buffer = <<"q", "s">>
    /\ selected_download = Some(0)
    /\ main_pc = "draw"
    /\ tasks = [t \in TaskIds |-> NoTask]

(* ------------------------- commit and progress ------------------------- *)
\* run_app runs one of its guarded blocks (render, mode read, handler) in this
\* step, reading the app
MainReadsApp == main_pc \in {"draw", "mode", "act"} /\ main_pc' # main_pc

\* C21: a successful refresh stores the new list and the new last_refresh in one
\* step of the unit that holds the lock with its list request in flight, so the
\* list never changes without last_refresh; and run_app (its renderer included)
\* reads the app only in steps in which no other unit holds the lock.
C21_AtomicCommit ==
    [][/\ (downloads' # downloads \/ last_refresh' # last_refresh) =>
            /\ last_refresh' = last_refresh + 1
            /\ \E u \in Workers :
                 /\ lock_holder = u
                 /\ InFlight(u)
                 /\ ~InFlight(u)' \/ (u \in TaskIds /\ tasks[u].pc = "fetch1")
            /\ ~MainReadsApp
       /\ MainReadsApp => lock_holder \in {NoUnit, MainUnit}]_vars

\* run_app has rendered a list that a refresh committed
C21_Witness ==
    /\ last_refresh >= 1
    /\ downloads # <<>>
    /\ main_pc = "read"
    /\ main_susp = "no"
    /\ lock_holder = NoUnit

\* every unit of work: the refresh task, the action tasks and run_app
Units == Workers \cup {MainUnit}

\* every unit that holds the lock gives it up
LockReleased ==
    \A u \in Units : (lock_holder = u) ~> (lock_holder # u \/ Exited)

\* every dispatched action task ends, and every list request of the refresh
\* task returns into the wait for the next tick
WorkCompletes ==
    /\ \A t \in TaskIds : (tasks[t].pc = "start") ~> (tasks[t].pc = "none" \/ Exited)
    /\ (refresh_pc \in {"lockwait", "fetch"}) ~> (refresh_pc = "tick" \/ Exited)

\* every key event read is handled to the end: run_app gets back to its render
KeyProcessed ==
    (main_pc \in {"mode", "act"}) ~> (main_pc = "draw" \/ Exited)

\* never are all units waiting for the lock
NotAllWaiting ==
    ~(\A u \in Units : \E i \in 1..Len(lock_queue) : lock_queue[i] = u)

\* C22: with fair scheduling and every network call returning, every unit that
\* acquires the lock releases it, every dispatched action and refresh runs to
\* its end, every key event read is fully processed, and the units are never all
\* waiting for the lock; stated for the runs in which the process does not end
\* first.
C22_Progress ==
    /\ LockReleased
    /\ WorkCompletes
    /\ KeyProcessed
    /\ []NotAllWaiting

====
